---- MODULE Spec2Model ----
(***************************************************************************)
(* The executive layer of the contracts pallet (frame/contracts/src/exec.rs) *)
(* as a state machine: one top-level entry (with_call / with_instantiate)   *)
(* builds a Stack, the executable of the top frame calls back through Ext,  *)
(* and every frame runs inside one storage transaction.                     *)
(*                                                                         *)
(* The executable is an arbitrary program: at every step the top frame may  *)
(* perform any Ext operation or return Ok, Ok with REVERT, or Err.          *)
(***************************************************************************)
EXTENDS Integers, Sequences, FiniteSets, TLC

\* ---------------------------------------------------------------- bounds

\* Number of Ext operations one top-level entry may perform.
MaxSteps == 4
\* T::MaxDepth::get() is drawn from 0..MaxDepthBound.
MaxDepthBound == 3
\* u64 seeds are kept modulo 2^SeedBits.
SeedBits == 4
\* Account ids are 1..MaxAccount.
MaxAccount == 11
\* Gas left in the meter handed to the top-level entry.
InitialGas == 6

\* ------------------------------------------------------- program constants

ALICE == 1
BOB == 2
CHARLIE == 3
DJANGO == 4

\* T::Currency::minimum_balance()
ExistentialDeposit == 1
\* T::TombstoneDeposit::get()
TombstoneDeposit == 1
\* Rent due per block of a contract's life.
RentPerBlock == 1
\* frame_system::Pallet::block_number()
BlockNumber == 1
\* Capacity of the trie deletion queue.
DeletionQueueDepth == 1
\* BalanceOf::max_value(), the allowance of a fresh contract.
MaxAllowance == 2

Accounts == 1..MaxAccount
CodeHashes == {1, 2}
Values == {0, 3}
Endowments == {0, 3, 6}
Allowances == {0}
Salts == {0}
GasLimits == {0, 2}
GasAmounts == {1, 2}
\* What an executable returns: its data, or the error it fails with, which may be
\* one that a call it made came back with.
Outputs == {0, 1}
ExecutableErrors == {"ContractTrapped", "MaxCallDepthReached", "TransferFailed"}
SeedMod == 2 ^ SeedBits
None == -1

subsistence_threshold == ExistentialDeposit + TombstoneDeposit

Max(S) == CHOOSE x \in S : \A y \in S : y <= x

saturating_sub(a, b) == IF a >= b THEN a - b ELSE 0
wrapping_add(a, b) == (a + b) % SeedMod
wrapping_sub(a, b) == (a - b + SeedMod) % SeedMod

\* ------------------------------------------------------------ data shapes

NoTrie == [account |-> 0, seed |-> 0]
NoInfo == [alive |-> FALSE, trie_id |-> NoTrie, code_hash |-> 0,
           rent_allowance |-> 0, deduct_block |-> 0]

AliveContractInfo(trie_id, code_hash, rent_allowance, deduct_block) ==
    [alive |-> TRUE, trie_id |-> trie_id, code_hash |-> code_hash,
     rent_allowance |-> rent_allowance, deduct_block |-> deduct_block]

Cached(info) == [state |-> "Cached", info |-> info]
Invalidated == [state |-> "Invalidated", info |-> NoInfo]
Terminated == [state |-> "Terminated", info |-> NoInfo]

NoRentParams == [total_balance |-> 0, free_balance |-> 0, rent_allowance |-> 0,
                 code_refcount |-> 0]
NoMeter == [limit |-> 0, gas_left |-> 0]

NoFrame == [account_id |-> 0, contract_info |-> Invalidated, value_transferred |-> 0,
            rent_params |-> NoRentParams, entry_point |-> "None",
            nested_meter |-> NoMeter]

Instantiated(caller, account) == [event |-> "Instantiated", a |-> caller, b |-> account]
\* The two accounts change places.
TerminatedEvent_swapped(account, beneficiary) ==
    [event |-> "Terminated", a |-> beneficiary, b |-> account]

TerminatedEvent(account, beneficiary) ==
    [event |-> "Terminated", a |-> account, b |-> beneficiary]
Restored(account, dest) == [event |-> "Restored", a |-> account, b |-> dest]

Fail(err, S) == [ok |-> FALSE, err |-> err, S |-> S]
Done(S) == [ok |-> TRUE, err |-> "", S |-> S]

\* ------------------------------------------------------- host environment

free_balance(S, who) == S.balance[who]
\* Nothing is reserved in this model: the total balance is the free balance.
total_balance(S, who) == S.balance[who]

\* Currency::transfer of the balances pallet.
Currency_transfer(S, from, to, value, existence_requirement) ==
    IF value = 0 \/ from = to THEN Done(S)
    ELSE IF free_balance(S, from) < value THEN Fail("InsufficientBalance", S)
    ELSE IF existence_requirement = "KeepAlive"
            /\ free_balance(S, from) - value < ExistentialDeposit
         THEN Fail("KeepAlive", S)
    ELSE IF free_balance(S, to) + value < ExistentialDeposit
         THEN Fail("ExistentialDeposit", S)
    ELSE Done([S EXCEPT !.balance[from] = @ - value, !.balance[to] = @ + value])

\* The event is lost.
deposit_event_dropped(S, event) == S

\* GasMeter::nested: the amount (0 stands for all the gas that is left) leaves the
\* meter and makes up the new one.
GasMeter_nested(gas_left, amount) ==
    LET taken == IF amount = 0 THEN gas_left ELSE amount
    IN IF gas_left < taken
       THEN [ok |-> FALSE, meter |-> NoMeter, gas_left |-> gas_left]
       ELSE [ok |-> TRUE, meter |-> [limit |-> taken, gas_left |-> taken],
             gas_left |-> gas_left - taken]

\* A dropped meter gives the gas it has left back to the meter it was taken from.
GasMeter_absorb(gas_left, meter) == gas_left + meter.gas_left

\* GasMeter::charge
GasMeter_charge(meter, amount) ==
    IF meter.gas_left < amount THEN [ok |-> FALSE, meter |-> meter]
    ELSE [ok |-> TRUE, meter |-> [meter EXCEPT !.gas_left = @ - amount]]

deposit_event(S, event) == [S EXCEPT !.events = Append(@, event)]

\* The address hash: injective, and never the address of a named account.
contract_address(caller, code_hash, salt) ==
    DJANGO + caller + MaxAccount * ((code_hash - 1) + Cardinality(CodeHashes) * salt)

generate_trie_id(account_id, seed) == [account |-> account_id, seed |-> seed]

\* Storage::new_contract: a fresh record under the address, charged from the block before.
new_contract(S, account_id, trie_id, code_hash) ==
    IF S.info[account_id].alive THEN Fail("DuplicateContract", S) @@ [contract |-> NoInfo]
    ELSE LET contract == AliveContractInfo(trie_id, code_hash, MaxAllowance, BlockNumber - 1)
         IN Done([S EXCEPT !.info[account_id] = contract]) @@ [contract |-> contract]

\* Storage::queue_trie_for_deletion
queue_trie_for_deletion(S, info) ==
    IF Len(S.deletion_queue) >= DeletionQueueDepth THEN Fail("DeletionQueueFull", S)
    ELSE Done([S EXCEPT !.deletion_queue = Append(@, info.trie_id)])

\* E::from_storage: the code exists while some contract uses it.
from_storage(S, code_hash) == S.refcount[code_hash] > 0

add_user(S, code_hash) == [S EXCEPT !.refcount[code_hash] = @ + 1]
remove_user(S, code_hash) == [S EXCEPT !.refcount[code_hash] = saturating_sub(@, 1)]

code_len(code_hash) == 10 + code_hash

\* Rent::charge: the rent for the blocks since deduct_block is withdrawn from the
\* contract; a contract that cannot pay and stay above the subsistence threshold is
\* to be evicted (None) and nothing is changed.
Rent_charge(S, account, contract) ==
    LET blocks_passed == saturating_sub(BlockNumber, contract.deduct_block)
        dues == RentPerBlock * blocks_passed
    IN IF free_balance(S, account) < subsistence_threshold + dues
       THEN [some |-> FALSE, contract |-> NoInfo, S |-> S]
       ELSE [some |-> TRUE,
             contract |-> [contract EXCEPT !.deduct_block = BlockNumber],
             S |-> [S EXCEPT !.balance[account] = @ - dues]]

\* Rent::restore_to: the tombstone at dest is replaced by the restored contract,
\* which takes over the record and the balance of the current one.
Rent_restore_to(S, origin_contract, dest, rent_allowance) ==
    IF ~S.info[origin_contract].alive \/ S.info[dest].alive \/ dest = origin_contract
    THEN Fail("InvalidContractOrigin", S)
    ELSE Done([S EXCEPT
            !.info[dest] = [S.info[origin_contract] EXCEPT
                               !.rent_allowance = rent_allowance],
            !.info[origin_contract] = NoInfo,
            !.balance[dest] = @ + S.balance[origin_contract],
            !.balance[origin_contract] = 0])

\* ------------------------------------------------------------------ state

VARIABLES
    max_depth,        \* T::MaxDepth::get()
    gas_meter,        \* Stack::gas_meter: the gas left in the meter of the entry
    AccountCounter,   \* the persistent AccountCounter<T>
    storage,          \* host storage: balances, ContractInfoOf, events, deletion queue, code
    txs,              \* storage snapshots of the open with_transaction calls
    origin,           \* Stack::origin
    account_counter,  \* Stack::account_counter
    first_frame,      \* Stack::first_frame
    frames,           \* Stack::frames
    hist,             \* per frame: what was true when it was pushed
    committed,        \* constructor frames whose commit stands, in commit order
    mode,             \* "idle" | "running" | "done" | "panic"
    ret,              \* what the last operation returned to its caller
    steps             \* operations performed

vars == <<max_depth, gas_meter, AccountCounter, storage, txs, origin, account_counter,
          first_frame, frames, hist, committed, mode, ret, steps>>

NoRet == [kind |-> "none"]

\* The logical stack, bottom first.
AllFrames == <<first_frame>> \o frames

\* ------------------------------------------------------------------ Stack

\* CachedContract::load
load(contract_info, S, account_id) ==
    IF contract_info.state = "Invalidated" /\ S.info[account_id].alive
    THEN Cached(S.info[account_id])
    ELSE contract_info

\* Stack::depth
depth(all) == Len(all)

\* Stack::frame
frame(all) == all[Len(all)]

\* Every sender is held to be a contract.
caller_is_contract_always(all) == TRUE

\* Stack::caller_is_contract
caller_is_contract(all) == depth(all) > 1

\* The frames are counted from the bottom of the stack.
caller_from_bottom(all, orig) ==
    IF Len(all) >= 2 THEN all[1].account_id ELSE orig

\* Ext::caller
caller(all, orig) == IF Len(all) >= 2 THEN all[Len(all) - 1].account_id ELSE orig

\* The current frame is not skipped.
is_recursive_no_skip(all) ==
    \E i \in 1..Len(all) : all[i].account_id = all[Len(all)].account_id

\* Stack::is_recursive
is_recursive(all) ==
    \E i \in 1..(Len(all) - 1) : all[i].account_id = frame(all).account_id

\* Stack::initial_account_seed
initial_account_seed(counter_in_storage) == wrapping_add(counter_in_storage, 1)

\* Stack::next_account_seed
next_account_seed(counter, counter_in_storage) ==
    IF counter # None THEN (counter + 1) % SeedMod
    ELSE initial_account_seed(counter_in_storage)

\* `current + 1` on u64: whether the addition overflows.
seed_overflows(counter) == counter # None /\ counter + 1 >= SeedMod

\* The error of the currency is handed on as it is.
transfer_raw_error(S, sender_is_contract, allow_death, from, to, value) ==
    IF value = 0 THEN Done(S)
    ELSE IF ~allow_death /\ sender_is_contract
            /\ saturating_sub(total_balance(S, from), value) < subsistence_threshold
         THEN Fail("BelowSubsistenceThreshold", S)
    ELSE Currency_transfer(S, from, to, value,
                           IF allow_death THEN "AllowDeath" ELSE "KeepAlive")

\* A contract is not held to the subsistence threshold.
transfer_no_floor(S, sender_is_contract, allow_death, from, to, value) ==
    IF value = 0 THEN Done(S)
    ELSE LET r == Currency_transfer(S, from, to, value,
                     IF allow_death THEN "AllowDeath" ELSE "KeepAlive")
         IN IF r.ok THEN r ELSE Fail("TransferFailed", S)

\* Stack::transfer
transfer(S, sender_is_contract, allow_death, from, to, value) ==
    IF value = 0 THEN Done(S)
    ELSE IF ~allow_death /\ sender_is_contract
            /\ saturating_sub(total_balance(S, from), value) < subsistence_threshold
         THEN Fail("BelowSubsistenceThreshold", S)
    ELSE LET r == Currency_transfer(S, from, to, value,
                     IF allow_death THEN "AllowDeath" ELSE "KeepAlive")
         IN IF r.ok THEN r ELSE Fail("TransferFailed", S)

\* The value goes from the frame's account to the caller.
initial_transfer_reversed(S, all, orig) ==
    transfer(S, caller_is_contract(all), FALSE, frame(all).account_id,
             caller(all, orig), frame(all).value_transferred)

\* Stack::initial_transfer
initial_transfer(S, all, orig) ==
    transfer(S, caller_is_contract(all), FALSE, caller(all, orig),
             frame(all).account_id, frame(all).value_transferred)

\* RentParams::new
RentParams_new(S, account_id, contract, code_hash) ==
    [total_balance |-> total_balance(S, account_id),
     free_balance |-> free_balance(S, account_id),
     rent_allowance |-> contract.rent_allowance,
     code_refcount |-> S.refcount[code_hash]]

NewFrameErr(err, len, S) ==
    [ok |-> FALSE, err |-> err, code_len |-> len, S |-> S, frame |-> NoFrame,
     code_hash |-> 0, gas |-> 0]

\* Stack::new_frame from the Frame literal on: the rent parameters are taken, then the
\* nested meter is taken out of the meter that was passed in.
MakeFrame(S, account_id, contract, code_hash, value_transferred, entry_point, gas, gas_limit) ==
    LET nested == GasMeter_nested(gas, gas_limit)
    IN IF ~nested.ok THEN NewFrameErr("OutOfGas", code_len(code_hash), S)
       ELSE [ok |-> TRUE, err |-> "", code_len |-> code_len(code_hash), S |-> S,
             code_hash |-> code_hash, gas |-> nested.gas_left,
             frame |-> [account_id |-> account_id,
                        contract_info |-> Cached(contract),
                        value_transferred |-> value_transferred,
                        rent_params |-> RentParams_new(S, account_id, contract, code_hash),
                        entry_point |-> entry_point,
                        nested_meter |-> nested.meter]]

\* Stack::new_frame for FrameArgs::Call(account_id, cached)
new_frame_call(S, maxd, account_id, cached, value_transferred, gas, gas_limit) ==
    IF maxd = 0 THEN NewFrameErr("MaxCallDepthReached", 0, S)
    ELSE LET contract == IF cached.alive THEN cached ELSE S.info[account_id]
         IN IF ~contract.alive THEN NewFrameErr("NotCallable", 0, S)
            ELSE IF ~from_storage(S, contract.code_hash)
                 THEN NewFrameErr("CodeNotFound", 0, S)
            ELSE LET charged == Rent_charge(S, account_id, contract)
                 IN IF ~charged.some
                    THEN NewFrameErr("NotCallable", code_len(contract.code_hash), S)
                    ELSE MakeFrame(charged.S, account_id, charged.contract,
                                   contract.code_hash, value_transferred, "Call",
                                   gas, gas_limit)

\* Stack::new_frame for FrameArgs::Instantiate(caller, seed, executable, salt)
new_frame_instantiate(S, maxd, from, seed, code_hash, salt, value_transferred, gas, gas_limit) ==
    IF maxd = 0 THEN NewFrameErr("MaxCallDepthReached", 0, S)
    ELSE LET account_id == contract_address(from, code_hash, salt)
             trie_id == generate_trie_id(account_id, seed)
             created == new_contract(S, account_id, trie_id, code_hash)
         IN IF ~created.ok THEN NewFrameErr(created.err, code_len(code_hash), S)
            ELSE MakeFrame(created.S, account_id, created.contract, code_hash,
                           value_transferred, "Constructor", gas, gas_limit)

\* No frame leaves the stack.
pop_frame_kept(all, S, persist) == [all |-> all, S |-> S]

\* The popped frame is dropped whatever persist says.
pop_frame_dropped(all, S, persist) ==
    [all |-> IF Len(all) > 1 THEN SubSeq(all, 1, Len(all) - 1) ELSE all, S |-> S]

\* The frame of the account that is lowest on the stack is found.
find_duplicate_lowest(rest, account_id) ==
    LET same == {i \in 1..(Len(rest) - 1) : rest[i].account_id = account_id}
    IN IF same = {} THEN 0 ELSE CHOOSE i \in same : \A j \in same : i <= j

\* Stack::pop_frame, frames_mut().skip(1).find(..): the place of the topmost frame of
\* the account below the new top frame, 0 when there is none.
find_duplicate(rest, account_id) ==
    LET same == {i \in 1..(Len(rest) - 1) : rest[i].account_id = account_id}
    IN IF same = {} THEN 0 ELSE Max(same)

\* The frame below is never taken for a frame of the same contract.
predecessor_is_same_never(rest, account_id) == FALSE

\* Stack::pop_frame: the predecessor of the popped frame is the same contract.
predecessor_is_same(rest, account_id) == frame(rest).account_id = account_id

\* The record is not written.
ContractInfoOf_insert_skipped(S, account_id, contract) == S

\* <ContractInfoOf<T>>::insert(account_id, ContractInfo::Alive(contract))
ContractInfoOf_insert(S, account_id, contract) ==
    [S EXCEPT !.info[account_id] = contract]

\* Stack::pop_frame after the test of persist: the frame's record is handed on.
pop_frame_persist(all, S) ==
    LET n == Len(all)
        popped == all[n]
        rest == IF n > 1 THEN SubSeq(all, 1, n - 1) ELSE all
    IN IF n > 1
       THEN IF popped.contract_info.state = "Cached"
            THEN LET account_id == popped.account_id
                     contract == popped.contract_info.info
                 IN IF predecessor_is_same(rest, account_id)
                    THEN [all |-> [rest EXCEPT ![n - 1].contract_info = Cached(contract)],
                          S |-> S]
                    ELSE LET same == find_duplicate(rest, account_id)
                         IN [all |-> IF same = 0 THEN rest
                                     ELSE [rest EXCEPT ![same].contract_info =
                                                          Invalidated],
                             S |-> ContractInfoOf_insert(S, account_id, contract)]
            ELSE [all |-> rest, S |-> S]
       ELSE IF popped.contract_info.state = "Cached"
            THEN [all |-> rest,
                  S |-> ContractInfoOf_insert(S, popped.account_id,
                                              popped.contract_info.info)]
            ELSE [all |-> rest, S |-> S]

\* The frame's record is handed on whatever persist says.
pop_frame_always_persisted(all, S, persist) == pop_frame_persist(all, S)

\* Stack::pop_frame: the remaining stack and the storage after the pop.
pop_frame(all, S, persist) ==
    IF ~persist
    THEN [all |-> IF Len(all) > 1 THEN SubSeq(all, 1, Len(all) - 1) ELSE all, S |-> S]
    ELSE pop_frame_persist(all, S)

\* The depth is not checked.
push_frame_call_unchecked(all, S, maxd, to, cached, value_transferred, gas, gas_limit) ==
    new_frame_call(S, maxd, to, cached, value_transferred, gas, gas_limit)

\* Stack::push_frame for a call
push_frame_call(all, S, maxd, to, cached, value_transferred, gas, gas_limit) ==
    IF depth(all) = maxd THEN NewFrameErr("MaxCallDepthReached", 0, S)
    ELSE new_frame_call(S, maxd, to, cached, value_transferred, gas, gas_limit)

\* Stack::push_frame for an instantiation
push_frame_instantiate(all, S, maxd, seed, code_hash, salt, value_transferred, gas, gas_limit) ==
    IF depth(all) = maxd THEN NewFrameErr("MaxCallDepthReached", 0, S)
    ELSE new_frame_instantiate(S, maxd, frame(all).account_id, seed, code_hash, salt,
                               value_transferred, gas, gas_limit)

\* The callee's record is always read from storage.
existing_info_none(all, to) == NoInfo

\* Ext::call: the info of the topmost Call frame of the callee, if it is cached.
existing_info(all, to) ==
    LET found == {i \in 1..Len(all) :
                     all[i].entry_point = "Call" /\ all[i].account_id = to}
    IN IF found = {} THEN NoInfo
       ELSE IF all[Max(found)].contract_info.state = "Cached"
            THEN all[Max(found)].contract_info.info
            ELSE NoInfo

\* Stack::raw_run: which results of the executable commit the frame's transaction.
commits(outcome) == outcome # "Err"

\* Stack::run: which outputs of raw_run are Ok.
is_ok(result) == result # "Err"

\* The executable is called whatever the initial transfer returned.
raw_run_begin_unchecked(all, S, orig, code_hash) ==
    LET moved == initial_transfer(S, all, orig)
    IN [ok |-> TRUE, err |-> "",
        S |-> IF frame(all).entry_point = "Constructor"
              THEN add_user(moved.S, code_hash) ELSE moved.S]

\* Stack::raw_run up to the call of the executable: the transaction is opened on S,
\* the value is transferred, and a constructor's code gains a user.
raw_run_begin(all, S, orig, code_hash) ==
    LET moved == initial_transfer(S, all, orig)
    IN IF ~moved.ok THEN [ok |-> FALSE, err |-> moved.err, S |-> S]
       ELSE [ok |-> TRUE, err |-> "",
             S |-> IF frame(all).entry_point = "Constructor"
                   THEN add_user(moved.S, code_hash) ELSE moved.S]

\* The error keeps the origin the executive gives to its own errors.
map_err_origin_kept(error) == "Caller"

\* Stack::raw_run, map_err on the result of the executable: the origin of its error.
map_err_origin(error) == "Callee"

\* Stack::raw_run from the return of the executable on: the transaction opened on
\* `snapshot` ends, and a constructor that succeeded pays its first rent.
raw_run_end(all, S, snapshot, outcome, error, orig, code_hash) ==
    LET n == Len(all)
        top == all[n]
        len == code_len(code_hash)
        after == IF commits(outcome) THEN S ELSE snapshot
        out(result, err, stack, store) ==
            [panic |-> FALSE, result |-> result, err |-> err, code_len |-> len,
             origin |-> IF result = "Err" THEN "Caller" ELSE "",
             all |-> stack, S |-> store]
    IN IF outcome = "Err"
       THEN [out("Err", error, all, after) EXCEPT !.origin = map_err_origin(error)]
       ELSE IF top.entry_point # "Constructor" THEN out(outcome, "", all, after)
       ELSE IF top.contract_info.state = "Terminated"
            THEN out("Err", "NotCallable", all, after)
       ELSE LET loaded == load(top.contract_info, after, top.account_id)
            IN IF loaded.state # "Cached"
               THEN [out("Err", "panic", all, after) EXCEPT !.panic = TRUE]
               ELSE LET charged == Rent_charge(after, top.account_id, loaded.info)
                    IN IF ~charged.some
                       THEN out("Err", "NewContractNotFunded",
                                [all EXCEPT ![n].contract_info = Invalidated], after)
                       ELSE out(outcome, "",
                                [all EXCEPT ![n].contract_info = Cached(charged.contract)],
                                deposit_event(charged.S,
                                    Instantiated(caller(all, orig), top.account_id)))

\* The counter is decremented whatever the frame returned.
run_counter_always(counter, result, entry_point) ==
    IF entry_point = "Constructor" /\ counter # None
    THEN (counter - 1 + SeedMod) % SeedMod
    ELSE counter

\* Stack::run: the counter after a frame of the given entry point returned.
run_counter(counter, result, entry_point) ==
    IF ~is_ok(result) /\ entry_point = "Constructor" /\ counter # None
    THEN wrapping_sub(counter, 1)
    ELSE counter

\* ---------------------------------------------------------------- actions

Returned(kind, result, err, len) ==
    [kind |-> kind, result |-> result, error |-> err, code_len |-> len,
     pushed |-> FALSE, account |-> 0, caller |-> 0, entry_point |-> "None",
     value |-> 0, beneficiary |-> 0, outcome |-> "",
     entry_balance |-> storage.balance, pre |-> storage, at_return |-> storage,
     counter_before |-> account_counter, counter_at_return |-> account_counter,
     seed |-> None, popped |-> NoFrame, before |-> AllFrames, depth |-> Len(frames) + 1,
     gas |-> gas_meter, gas_limit |-> 0, rent_params |-> NoRentParams,
     data |-> None, origin |-> "", executed |-> None, allowance |-> None,
     from |-> [account_id |-> frame(AllFrames).account_id,
               entry_point |-> frame(AllFrames).entry_point,
               depth |-> depth(AllFrames)]]

InitialStorage ==
    [balance |-> [a \in Accounts |->
                     IF a = ALICE THEN 8 ELSE IF a = BOB THEN 10
                     ELSE IF a = CHARLIE THEN 4 ELSE 0],
     info |-> [a \in Accounts |->
                  IF a = BOB
                  THEN AliveContractInfo(generate_trie_id(BOB, 0), 1, MaxAllowance, 0)
                  ELSE IF a = CHARLIE
                  THEN AliveContractInfo(generate_trie_id(CHARLIE, 0), 1, MaxAllowance,
                                         BlockNumber)
                  ELSE NoInfo],
     events |-> <<>>,
     deletion_queue |-> <<>>,
     refcount |-> [c \in CodeHashes |-> IF c = 1 THEN 2 ELSE 0]]

Init ==
    /\ max_depth \in 0..MaxDepthBound
    /\ gas_meter = InitialGas
    /\ AccountCounter \in {0, SeedMod - 1}
    /\ storage = InitialStorage
    /\ txs = <<>>
    /\ origin = ALICE
    /\ account_counter = None
    /\ first_frame = NoFrame
    /\ frames = <<>>
    /\ hist = <<>>
    /\ committed = <<>>
    /\ mode = "idle"
    /\ ret = NoRet
    /\ steps = 0

\* What Ext::rent_allowance returns in the top frame of the stack.
allowance_read(all, S) ==
    LET top == frame(all)
        loaded == load(top.contract_info, S, top.account_id)
    IN IF top.entry_point # "None" /\ loaded.state = "Cached"
       THEN loaded.info.rent_allowance
       ELSE None

\* What the frame on top of the stack was pushed with.
Pushed(code_hash, seed, S, pushed, by) ==
    [code_hash |-> code_hash, seed |-> seed, counter_before |-> account_counter,
     entry_balance |-> S.balance, at |-> steps, standing |-> Len(committed),
     rent_params |-> pushed.rent_params, by |-> by,
     allowance |-> allowance_read(AllFrames, storage),
     from |-> [account_id |-> frame(AllFrames).account_id,
               entry_point |-> frame(AllFrames).entry_point,
               depth |-> depth(AllFrames)]]

\* Stack::new followed by Stack::run up to the call of the executable.
TopLevel(kind, orig, built, seed) ==
    LET began == raw_run_begin(<<built.frame>>, built.S, orig, built.code_hash)
        base == [Returned(kind, "Err", built.err, built.code_len) EXCEPT
                    !.caller = orig, !.seed = seed, !.origin = "Caller"]
    IN /\ origin' = orig
       /\ account_counter' = None
       /\ frames' = <<>>
       /\ steps' = steps + 1
       /\ UNCHANGED <<max_depth, AccountCounter, committed>>
       /\ IF ~built.ok
          THEN /\ mode' = "done"
               /\ ret' = base
               /\ UNCHANGED <<gas_meter, storage, txs, first_frame, hist>>
          ELSE /\ first_frame' = built.frame
               /\ IF ~began.ok
                  THEN /\ mode' = "done"
                       /\ gas_meter' =
                              GasMeter_absorb(built.gas, built.frame.nested_meter)
                       /\ storage' = pop_frame(<<built.frame>>, began.S, FALSE).S
                       /\ ret' = [base EXCEPT !.error = began.err, !.code_len = 0,
                                     !.pushed = TRUE,
                                     !.account = built.frame.account_id,
                                     !.entry_point = built.frame.entry_point,
                                     !.value = built.frame.value_transferred,
                                     !.pre = built.S, !.at_return = built.S,
                                     !.popped = built.frame]
                       /\ UNCHANGED <<txs, hist>>
                  ELSE /\ mode' = "running"
                       /\ gas_meter' = built.gas
                       /\ storage' = began.S
                       /\ txs' = <<built.S>>
                       /\ hist' = <<Pushed(built.code_hash, seed, storage, built.frame, orig)>>
                       /\ ret' = [Returned("entered", "", "", 0) EXCEPT
                                     !.pushed = TRUE, !.caller = orig,
                                     !.account = built.frame.account_id,
                                     !.entry_point = built.frame.entry_point,
                                     !.value = built.frame.value_transferred,
                                     !.pre = built.S, !.seed = seed]

\* Stack::with_call
with_call(orig, dest, value) ==
    /\ mode = "idle"
    /\ TopLevel("with_call", orig,
                new_frame_call(storage, max_depth, dest, NoInfo, value, gas_meter, 0),
                None)

\* Stack::with_instantiate
with_instantiate(orig, code_hash, value, salt) ==
    /\ mode = "idle"
    /\ contract_address(orig, code_hash, salt) \in Accounts
    /\ TopLevel("with_instantiate", orig,
                new_frame_instantiate(storage, max_depth, orig,
                    initial_account_seed(AccountCounter), code_hash, salt, value,
                    gas_meter, 0),
                initial_account_seed(AccountCounter))

\* Stack::push_frame followed by Stack::run up to the call of the executable.
Nested(kind, built, seed, counter, gas_limit) ==
    LET all == Append(AllFrames, built.frame)
        began == raw_run_begin(all, built.S, origin, built.code_hash)
        popped == pop_frame(all, began.S, FALSE)
        base == [Returned(kind, "Err", built.err, built.code_len) EXCEPT
                    !.caller = frame(AllFrames).account_id, !.seed = seed,
                    !.gas_limit = gas_limit, !.origin = "Caller"]
    IN /\ steps' = steps + 1
       /\ UNCHANGED <<max_depth, AccountCounter, origin, mode, committed>>
       /\ IF ~built.ok
          THEN /\ ret' = base
               /\ account_counter' = counter
               /\ UNCHANGED <<gas_meter, storage, txs, first_frame, frames, hist>>
          ELSE IF ~began.ok
          THEN /\ gas_meter' = GasMeter_absorb(built.gas, built.frame.nested_meter)
               /\ ret' = [base EXCEPT !.error = began.err, !.code_len = 0,
                             !.pushed = TRUE,
                             !.account = built.frame.account_id,
                             !.entry_point = built.frame.entry_point,
                             !.value = built.frame.value_transferred,
                             !.pre = built.S, !.at_return = built.S,
                             !.counter_at_return = counter,
                             !.popped = built.frame]
               /\ account_counter' = run_counter(counter, "Err", built.frame.entry_point)
               /\ storage' = popped.S
               /\ first_frame' = Head(popped.all)
               /\ frames' = Tail(popped.all)
               /\ UNCHANGED <<txs, hist>>
          ELSE /\ ret' = [Returned("entered", "", "", 0) EXCEPT
                             !.pushed = TRUE,
                             !.caller = frame(AllFrames).account_id,
                             !.account = built.frame.account_id,
                             !.entry_point = built.frame.entry_point,
                             !.value = built.frame.value_transferred,
                             !.pre = built.S, !.seed = seed,
                             !.gas_limit = gas_limit]
               /\ gas_meter' = built.gas
               /\ account_counter' = counter
               /\ storage' = began.S
               /\ txs' = Append(txs, built.S)
               /\ frames' = Append(frames, built.frame)
               /\ hist' = Append(hist, Pushed(built.code_hash, seed, storage,
                                              built.frame, frame(AllFrames).account_id))
               /\ UNCHANGED first_frame

\* A panic of the executive: get_cached_or_panic! on a frame that is not cached,
\* or an arithmetic overflow in a build that checks for it.
Panic ==
    /\ mode' = "panic"
    /\ ret' = Returned("panic", "", "", 0)
    /\ UNCHANGED <<max_depth, gas_meter, AccountCounter, storage, txs, origin,
                   account_counter, first_frame, frames, hist, committed, steps>>

\* Ext::call
call(gas_limit, to, value) ==
    /\ mode = "running"
    /\ steps < MaxSteps
    /\ Nested("call",
              push_frame_call(AllFrames, storage, max_depth, to,
                              existing_info(AllFrames, to), value, gas_meter, gas_limit),
              None, account_counter, gas_limit)

\* Ext::instantiate
instantiate(gas_limit, code_hash, endowment, salt, overflow) ==
    /\ mode = "running"
    /\ steps < MaxSteps
    /\ from_storage(storage, code_hash) =>
           contract_address(frame(AllFrames).account_id, code_hash, salt) \in Accounts
    /\ overflow \in {"wrap", "panic"}
    /\ overflow = "panic" =>
           from_storage(storage, code_hash) /\ seed_overflows(account_counter)
    /\ IF ~from_storage(storage, code_hash)
       THEN /\ ret' = [Returned("instantiate", "Err", "CodeNotFound", 0) EXCEPT
                          !.caller = frame(AllFrames).account_id,
                          !.origin = "Caller"]
            /\ steps' = steps + 1
            /\ UNCHANGED <<max_depth, gas_meter, AccountCounter, storage, txs, origin,
                           account_counter, first_frame, frames, hist, committed, mode>>
       ELSE IF overflow = "panic" THEN Panic
       ELSE LET seed == next_account_seed(account_counter, AccountCounter)
            IN Nested("instantiate",
                      push_frame_instantiate(AllFrames, storage, max_depth, seed,
                                             code_hash, salt, endowment, gas_meter,
                                             gas_limit),
                      seed, seed, gas_limit)

\* The executable of the top frame returns: the rest of Stack::raw_run, then
\* Stack::run and Stack::pop_frame, and the result goes to whoever invoked the frame.
execute_returns(outcome, data, error) ==
    /\ mode = "running"
    /\ LET all == AllFrames
           n == Len(all)
           top == all[n]
           h == hist[n]
           ended == raw_run_end(all, storage, txs[n], outcome, error, origin,
                                h.code_hash)
           popped == pop_frame(ended.all, ended.S, is_ok(ended.result))
           kind == IF n = 1
                   THEN (IF top.entry_point = "Call" THEN "with_call"
                         ELSE "with_instantiate")
                   ELSE (IF top.entry_point = "Call" THEN "call" ELSE "instantiate")
       IN IF ended.panic
          THEN /\ mode' = "panic"
               /\ ret' = Returned("panic", "", "", 0)
               /\ UNCHANGED <<max_depth, gas_meter, AccountCounter, storage, txs,
                              origin, account_counter, first_frame, frames, hist,
                              committed, steps>>
          ELSE /\ ret' = [Returned(kind, ended.result, ended.err, ended.code_len) EXCEPT
                             !.pushed = TRUE,
                             !.data = IF is_ok(ended.result) THEN data ELSE None,
                             !.executed = IF commits(outcome) THEN data ELSE None,
                             !.origin = ended.origin,
                             !.account = top.account_id,
                             !.caller = caller(all, origin),
                             !.entry_point = top.entry_point,
                             !.value = top.value_transferred,
                             !.entry_balance = h.entry_balance,
                             !.allowance = h.allowance,
                             !.from = h.from,
                             !.pre = txs[n],
                             !.counter_before = h.counter_before,
                             !.seed = h.seed,
                             !.outcome = outcome,
                             !.popped = frame(ended.all)]
               /\ account_counter' =
                      run_counter(account_counter, ended.result, top.entry_point)
               /\ gas_meter' = GasMeter_absorb(gas_meter, top.nested_meter)
               /\ storage' = popped.S
               /\ first_frame' = Head(popped.all)
               /\ frames' = Tail(popped.all)
               /\ txs' = SubSeq(txs, 1, n - 1)
               /\ hist' = SubSeq(hist, 1, n - 1)
               /\ committed' =
                      IF ~is_ok(ended.result) THEN SubSeq(committed, 1, h.standing)
                      ELSE IF top.entry_point = "Constructor"
                      THEN Append(committed,
                                  [seed |-> h.seed, at |-> h.at, nested |-> n > 1])
                      ELSE committed
               /\ mode' = IF n = 1 THEN "done" ELSE "running"
               /\ UNCHANGED <<max_depth, AccountCounter, origin, steps>>

\* An Ext operation that changes the top frame and the storage only.
Operation(returned, top, S) ==
    /\ ret' = returned
    /\ storage' = S
    /\ first_frame' = IF frames = <<>> THEN top ELSE first_frame
    /\ frames' = IF frames = <<>> THEN frames ELSE [frames EXCEPT ![Len(frames)] = top]
    /\ steps' = steps + 1
    /\ UNCHANGED <<max_depth, gas_meter, AccountCounter, txs, origin, account_counter,
                   hist, committed, mode>>

\* Ext::terminate
terminate(beneficiary) ==
    /\ mode = "running"
    /\ steps < MaxSteps
    /\ LET top == frame(AllFrames)
           loaded == load(top.contract_info, storage, top.account_id)
           dead == [top EXCEPT !.contract_info = Terminated]
           queued == queue_trie_for_deletion(storage, loaded.info)
           moved == transfer(queued.S, TRUE, TRUE, top.account_id, beneficiary,
                             free_balance(queued.S, top.account_id))
           removed == [moved.S EXCEPT !.info[top.account_id] = NoInfo]
           base == [Returned("terminate", "Err", "ReentranceDenied", 0) EXCEPT
                       !.account = top.account_id, !.beneficiary = beneficiary]
       IN IF is_recursive(AllFrames) THEN Operation(base, top, storage)
          ELSE IF loaded.state # "Cached" THEN Panic
          ELSE IF ~queued.ok
               THEN Operation([base EXCEPT !.error = queued.err], dead, storage)
          ELSE IF ~moved.ok
               THEN Operation([base EXCEPT !.error = moved.err], dead, queued.S)
          ELSE Operation([base EXCEPT !.result = "Ok", !.error = "",
                             !.code_len = code_len(loaded.info.code_hash)],
                         dead,
                         deposit_event(remove_user(removed, loaded.info.code_hash),
                             TerminatedEvent(top.account_id, beneficiary)))

\* Ext::restore_to
restore_to(dest, rent_allowance) ==
    /\ mode = "running"
    /\ steps < MaxSteps
    /\ LET top == frame(AllFrames)
           restored == Rent_restore_to(storage, top.account_id, dest, rent_allowance)
           base == [Returned("restore_to", "Err", "ReentranceDenied", 0) EXCEPT
                       !.account = top.account_id, !.beneficiary = dest]
       IN IF is_recursive(AllFrames) THEN Operation(base, top, storage)
          ELSE IF ~restored.ok
               THEN Operation([base EXCEPT !.error = restored.err], top, restored.S)
          ELSE Operation([base EXCEPT !.result = "Ok", !.error = ""], top,
                         deposit_event(restored.S, Restored(top.account_id, dest)))

\* Ext::transfer
ext_transfer(to, value) ==
    /\ mode = "running"
    /\ steps < MaxSteps
    /\ LET top == frame(AllFrames)
           moved == transfer(storage, TRUE, FALSE, top.account_id, to, value)
       IN Operation([Returned("transfer", IF moved.ok THEN "Ok" ELSE "Err", moved.err, 0)
                        EXCEPT !.account = top.account_id, !.beneficiary = to,
                               !.value = value],
                    top, moved.S)

\* Ext::gas_meter followed by GasMeter::charge
charge(amount) ==
    /\ mode = "running"
    /\ steps < MaxSteps
    /\ LET top == frame(AllFrames)
           charged == GasMeter_charge(top.nested_meter, amount)
       IN Operation([Returned("charge", IF charged.ok THEN "Ok" ELSE "Err",
                              IF charged.ok THEN "" ELSE "OutOfGas", 0)
                        EXCEPT !.account = top.account_id, !.value = amount],
                    [top EXCEPT !.nested_meter = charged.meter], storage)

\* The rent parameters are taken again from the balances of the moment.
rent_params_current(all, S) ==
    [frame(all).rent_params EXCEPT
        !.total_balance = total_balance(S, frame(all).account_id),
        !.free_balance = free_balance(S, frame(all).account_id)]

\* Ext::rent_params: what the top frame was constructed with.
rent_params(all, S) == frame(all).rent_params

\* Ext::rent_params as an operation of the running executable
ext_rent_params ==
    /\ mode = "running"
    /\ steps < MaxSteps
    /\ Operation([Returned("rent_params", "Ok", "", 0) EXCEPT
                      !.account = frame(AllFrames).account_id,
                      !.rent_params = rent_params(AllFrames, storage)],
                 frame(AllFrames), storage)

\* Ext::caller as an operation of the running executable
ext_caller ==
    /\ mode = "running"
    /\ steps < MaxSteps
    /\ Operation([Returned("caller", "Ok", "", 0) EXCEPT
                      !.account = frame(AllFrames).account_id,
                      !.caller = caller(AllFrames, origin)],
                 frame(AllFrames), storage)

\* Ext::set_rent_allowance
set_rent_allowance(rent_allowance) ==
    /\ mode = "running"
    /\ steps < MaxSteps
    /\ LET top == frame(AllFrames)
           loaded == load(top.contract_info, storage, top.account_id)
       IN IF loaded.state # "Cached" THEN Panic
          ELSE Operation([Returned("set_rent_allowance", "Ok", "", 0) EXCEPT
                             !.account = top.account_id, !.value = rent_allowance],
                         [top EXCEPT !.contract_info =
                             Cached([loaded.info EXCEPT
                                        !.rent_allowance = rent_allowance])],
                         storage)

\* Ext::rent_allowance
rent_allowance ==
    /\ mode = "running"
    /\ steps < MaxSteps
    /\ LET top == frame(AllFrames)
           loaded == load(top.contract_info, storage, top.account_id)
       IN IF loaded.state # "Cached" THEN Panic
          ELSE Operation([Returned("rent_allowance", "Ok", "", 0) EXCEPT
                             !.account = top.account_id,
                             !.value = loaded.info.rent_allowance],
                         [top EXCEPT !.contract_info = loaded],
                         storage)

\* The accounts an operation is tried on: the named ones and every contract.
Targets == {a \in Accounts : a <= CHARLIE \/ storage.info[a].alive}

\* The accounts a terminating contract names as beneficiary: another account or
\* the contract itself.
Beneficiaries == {ALICE, frame(AllFrames).account_id}

\* The values an origin cannot pay: all it holds, and more than it holds.
Overdrafts == {InitialStorage.balance[ALICE], InitialStorage.balance[ALICE] + 1}

\* The most an origin can pay: all it holds but the existential deposit.
Payable == {InitialStorage.balance[ALICE] - ExistentialDeposit}

\* The code hashes with code on chain.
Loaded == {c \in CodeHashes : from_storage(storage, c)}

Next ==
    \/ \E dest \in {ALICE, BOB, CHARLIE}, value \in Values \cup Overdrafts :
           with_call(ALICE, dest, value)
    \/ \E code_hash \in Loaded, value \in Endowments, salt \in Salts :
           with_instantiate(ALICE, code_hash, value, salt)
    \/ \E to \in Targets, value \in Values : call(0, to, value)
    \/ \E code_hash \in CodeHashes, endowment \in Endowments, salt \in Salts :
           \E overflow \in {"wrap", "panic"} :
               instantiate(0, code_hash, endowment, salt, overflow)
    \/ \E outcome \in {"Ok", "Revert", "Err"} :
           execute_returns(outcome, 0, "ContractTrapped")
    \/ \E beneficiary \in Beneficiaries : terminate(beneficiary)
    \/ \E dest \in {CHARLIE, DJANGO} : restore_to(dest, MaxAllowance)
    \/ \E to \in {ALICE, DJANGO}, value \in Values \ {0} : ext_transfer(to, value)
    \/ \E allowance \in Allowances : set_rent_allowance(allowance)
    \/ rent_allowance
    \/ ext_rent_params
    \/ ext_caller

Spec == Init /\ [][Next]_vars

\* The runs in which the executables limit the gas of what they call and use gas.
NextGas ==
    \/ \E dest \in {BOB, CHARLIE} : with_call(ALICE, dest, 0)
    \/ \E gas_limit \in GasLimits, to \in {BOB, CHARLIE} : call(gas_limit, to, 0)
    \/ \E gas_limit \in GasLimits, code_hash \in Loaded :
           instantiate(gas_limit, code_hash, Max(Values), 0, "wrap")
    \/ \E amount \in GasAmounts : charge(amount)
    \/ \E outcome \in {"Ok", "Err"} : execute_returns(outcome, 0, "ContractTrapped")

SpecGas == Init /\ [][NextGas]_vars

\* The runs in which the executables return data of their choice or fail with an
\* error of their choice.
NextOutput ==
    \/ \E dest \in {BOB, CHARLIE}, value \in Overdrafts :
           with_call(ALICE, dest, value)
    \/ \E code_hash \in Loaded, value \in Values :
           with_instantiate(ALICE, code_hash, value, 0)
    \/ \E to \in Targets : call(0, to, 0)
    \/ \E code_hash \in Loaded, endowment \in Values :
           instantiate(0, code_hash, endowment, 0, "wrap")
    \/ \E outcome \in {"Ok", "Revert", "Err"}, data \in Outputs,
          error \in ExecutableErrors :
           execute_returns(outcome, data, error)

SpecOutput == Init /\ [][NextOutput]_vars

\* The runs in which contracts call each other and themselves on a stack that is one
\* frame deeper, so that a frame can be popped above two frames of its own account.
InitPop ==
    /\ max_depth = MaxDepthBound + 1
    /\ gas_meter = InitialGas
    /\ AccountCounter = 0
    /\ storage = InitialStorage
    /\ txs = <<>>
    /\ origin = ALICE
    /\ account_counter = None
    /\ first_frame = NoFrame
    /\ frames = <<>>
    /\ hist = <<>>
    /\ committed = <<>>
    /\ mode = "idle"
    /\ ret = NoRet
    /\ steps = 0

NextPop ==
    \/ \E dest \in {BOB, CHARLIE} : with_call(ALICE, dest, 0)
    \/ \E to \in {BOB, CHARLIE} : call(0, to, 0)
    \/ \E allowance \in Allowances : set_rent_allowance(allowance)
    \/ \E outcome \in {"Ok", "Revert", "Err"} :
           execute_returns(outcome, 0, "ContractTrapped")

SpecPop == InitPop /\ [][NextPop]_vars

\* The runs in which an origin pays a contract up to all it can pay, and contracts pay
\* each other.
NextTransfer ==
    \/ \E dest \in {BOB, CHARLIE}, value \in Values \cup Payable \cup Overdrafts :
           with_call(ALICE, dest, value)
    \/ \E code_hash \in Loaded, value \in Values \cup Payable, salt \in Salts :
           with_instantiate(ALICE, code_hash, value, salt)
    \/ \E to \in Targets, value \in Values : call(0, to, value)
    \/ \E code_hash \in Loaded, endowment \in Values, salt \in Salts :
           \E overflow \in {"wrap", "panic"} :
               instantiate(0, code_hash, endowment, salt, overflow)
    \/ \E outcome \in {"Ok", "Revert", "Err"} :
           execute_returns(outcome, 0, "ContractTrapped")

SpecTransfer == Init /\ [][NextTransfer]_vars

\* The runs of the executable of the test max_depth: entered, it calls its own
\* contract; whatever the call returned, it returns Ok.
NextRecurse ==
    \/ \E dest \in {BOB, CHARLIE}, value \in Values : with_call(ALICE, dest, value)
    \/ ret.kind = "entered" /\ call(0, frame(AllFrames).account_id, 0)
    \/ ret.kind = "call" /\ execute_returns("Ok", 0, "ContractTrapped")

\* The executive is single-threaded and synchronous: a step that can be taken is taken.
SpecRecurse == Init /\ [][NextRecurse]_vars /\ WF_vars(NextRecurse)

\* ----------------------------------------------------------------- claims

\* A frame has just returned to whoever invoked it.
FrameReturned ==
    ret.kind \in {"with_call", "with_instantiate", "call", "instantiate"} /\ ret.pushed

CallReturned == FrameReturned /\ ret.entry_point = "Call"
ConstructorReturned == FrameReturned /\ ret.entry_point = "Constructor"

\* C1: when the executable of a Call frame returns Ok with REVERT set, the balances
\* of the caller and of the callee are, after the frame returned, what they were
\* immediately before the frame's initial transfer.
C1_RevertRestoresBalances ==
    (CallReturned /\ ret.result = "Revert") =>
        /\ storage.balance[ret.caller] = ret.pre.balance[ret.caller]
        /\ storage.balance[ret.account] = ret.pre.balance[ret.account]

\* C2: when a frame returns Err, at whatever step, the storage (balances, contract
\* records, events, deletion queue, code users) is, after the frame returned, what
\* it was immediately before the frame's initial transfer.
C2_ErrUndoesFrame ==
    (FrameReturned /\ ret.result = "Err") => storage = ret.pre

\* Reached: a Call frame whose executable returned Ok with REVERT handed a value over.
C1_RevertedCallWithValue ==
    CallReturned /\ ret.result = "Revert" /\ ret.value > 0

\* Reached: a constructor failed its first rent charge after its executable returned Ok.
C2_ConstructorNotFunded ==
    ConstructorReturned /\ ret.result = "Err" /\ ret.error = "NewContractNotFunded"

IsCached(f) == f.contract_info.state = "Cached"

\* C3 as stated: of the frames of one account at most one is Cached.
C3_AtMostOneCached ==
    mode = "running" =>
        \A i, j \in 1..Len(AllFrames) :
            (i < j /\ AllFrames[i].account_id = AllFrames[j].account_id
                   /\ IsCached(AllFrames[i])) => ~IsCached(AllFrames[j])

\* C3: Ext::call hands the record of the callee's topmost Call frame, when that frame
\* is Cached, to the frame it pushes and leaves the older frame Cached: the new frame
\* holds that record as Rent::charge returned it, so two Cached frames of one account
\* stand on the stack.
C3_CallSharesCachedRecord ==
    (ret.kind = "entered" /\ ret.entry_point = "Call"
        /\ Len(AllFrames) = Len(ret.before) + 1) =>
        LET below == ret.before
            calls == {i \in 1..Len(below) :
                         below[i].account_id = ret.account
                             /\ below[i].entry_point = "Call"}
            before == [ret.pre EXCEPT !.balance = ret.entry_balance]
        IN (calls # {} /\ IsCached(below[Max(calls)])) =>
               /\ AllFrames[Max(calls)] = below[Max(calls)]
               /\ frame(AllFrames).contract_info =
                      Cached(Rent_charge(before, ret.account,
                                 below[Max(calls)].contract_info.info).contract)

\* Reached: a frame was pushed by Ext::call for an account whose older Call frame holds a
\* Cached record that differs from the one in storage.
C3_TwoCachedFrames ==
    /\ mode = "running"
    /\ ret.kind = "entered"
    /\ \E i \in 1..(Len(AllFrames) - 1) :
           /\ AllFrames[i].account_id = frame(AllFrames).account_id
           /\ IsCached(AllFrames[i]) /\ IsCached(frame(AllFrames))
           /\ AllFrames[i].contract_info.info.rent_allowance #
                  storage.info[AllFrames[i].account_id].rent_allowance

\* How many Instantiated events name the account as the new contract.
InstantiatedFor(events, account) ==
    Cardinality({i \in 1..Len(events) :
                    events[i].event = "Instantiated" /\ events[i].b = account})

C5_RevertCreatesNoContract ==
    (ConstructorReturned /\ ret.outcome = "Revert") =>
        /\ ret.result = "Revert"
        /\ ~storage.info[ret.account].alive
        /\ InstantiatedFor(storage.events, ret.account) =
               InstantiatedFor(ret.pre.events, ret.account)

\* C6: after a constructor that terminated itself and whose executable then returned Ok,
\* instantiate has returned Err(NotCallable), and the events, the trie deletion queue
\* and the beneficiary's balance are what they were before the frame.
C6_SelfTerminatingConstructor ==
    (ConstructorReturned /\ ret.outcome = "Ok"
            /\ ret.popped.contract_info.state = "Terminated") =>
        /\ ret.result = "Err" /\ ret.error = "NotCallable"
        /\ storage.events = ret.pre.events
        /\ storage.deletion_queue = ret.pre.deletion_queue
        /\ \A b \in Beneficiaries : storage.balance[b] = ret.pre.balance[b]

\* Reached: a constructor terminated itself, sent its balance away and returned Ok.
C6_TerminatedInConstructor ==
    /\ ConstructorReturned /\ ret.outcome = "Ok"
    /\ ret.popped.contract_info.state = "Terminated"
    /\ ret.error = "NotCallable"

\* C7: Ext::terminate and Ext::restore_to return ReentranceDenied exactly when the
\* account of the top frame is the account of another frame of the stack, and then
\* the storage (balances, records, events), the frames and the counter are unchanged.
C7_ReentranceDeniedIffRecursive ==
    ret.kind \in {"terminate", "restore_to"} =>
        LET n == Len(ret.before)
            recursive == \E i \in 1..(n - 1) :
                             ret.before[i].account_id = ret.before[n].account_id
        IN /\ (ret.error = "ReentranceDenied") <=> recursive
           /\ recursive =>
                  /\ ret.result = "Err"
                  /\ storage = ret.pre
                  /\ AllFrames = ret.before
                  /\ account_counter = ret.counter_before

\* Reached: terminate was denied to a contract that is on the stack twice.
C7_TerminateDenied ==
    ret.kind = "terminate" /\ ret.error = "ReentranceDenied" /\ Len(ret.before) >= 2

\* The top-level part of C8: with MaxDepth = 0 an entry fails with MaxCallDepthReached
\* and code length 0, and neither a frame nor a change of storage comes of it.
NoStackAtDepthZero ==
    (ret.kind \in {"with_call", "with_instantiate"} /\ max_depth = 0) =>
        /\ ret.result = "Err" /\ ret.error = "MaxCallDepthReached" /\ ret.code_len = 0
        /\ ~ret.pushed
        /\ first_frame = NoFrame /\ frames = <<>>
        /\ storage = InitialStorage

\* What C8 says of an attempt refused for the depth.
RefusedForDepth ==
    /\ ret.result = "Err" /\ ret.error = "MaxCallDepthReached" /\ ret.code_len = 0
    /\ AllFrames = ret.before
    /\ storage = ret.pre

\* C8 as stated: the depth never exceeds MaxDepth, every call or instantiate attempted
\* at depth = MaxDepth is refused with MaxCallDepthReached, and with MaxDepth = 0 the
\* entry fails without a stack.
C8_DepthBounded ==
    /\ mode = "running" => depth(AllFrames) <= max_depth
    /\ (ret.kind \in {"call", "instantiate"} /\ ~ret.pushed /\ ret.depth = max_depth)
           => RefusedForDepth
    /\ NoStackAtDepthZero

\* C8: the depth never exceeds MaxDepth; at depth = MaxDepth a call, and an instantiate
\* whose code loads, is refused with MaxCallDepthReached and code length 0 and nothing
\* is pushed, while an instantiate whose code does not load fails with CodeNotFound
\* before the depth is looked at; with MaxDepth = 0 the entry fails without a stack.
C8_DepthBoundedWhenCodeLoads ==
    /\ mode = "running" => depth(AllFrames) <= max_depth
    /\ (ret.kind \in {"call", "instantiate"} /\ ~ret.pushed /\ ret.depth = max_depth)
           => IF ret.kind = "instantiate" /\ ret.error = "CodeNotFound"
              THEN /\ \E code_hash \in CodeHashes : ~from_storage(ret.pre, code_hash)
                   /\ AllFrames = ret.before /\ storage = ret.pre
              ELSE RefusedForDepth
    /\ NoStackAtDepthZero

\* Reached: an instantiate of loadable code was refused at depth = MaxDepth.
C8_InstantiateRefusedAtMaxDepth ==
    /\ ret.kind = "instantiate" /\ ~ret.pushed /\ ret.depth = max_depth
    /\ ret.error = "MaxCallDepthReached"

\* C9: after a nested instantiate that was given a seed returned Err, the next
\* instantiate is given the same seed.
C9_FailedInstantiateReusesSeed ==
    (ret.kind = "instantiate" /\ ret.result = "Err" /\ ret.seed # None) =>
        next_account_seed(account_counter, AccountCounter) = ret.seed

\* What C10 says of the counter when a constructor frame returns: one less (wrapping)
\* after Err, unchanged otherwise.
DecrementedOncePerFailure ==
    ConstructorReturned =>
        account_counter =
            IF ret.result = "Err" /\ ret.counter_at_return # None
            THEN wrapping_sub(ret.counter_at_return, 1)
            ELSE ret.counter_at_return

\* C10 as stated: the seeds of the constructor frames that committed increase strictly
\* in the order of their commits, and the counter goes down by one per failed
\* constructor frame.
C10_SeedsIncreaseInCommitOrder ==
    /\ \A i, j \in 1..Len(committed) :
           i < j => committed[i].seed < committed[j].seed
    /\ DecrementedOncePerFailure

\* C10: of the constructor frames pushed by Ext::instantiate whose commit stands, one
\* pushed later has the strictly greater seed (a frame commits after the frames it
\* instantiated, so the order of commits is not the order of seeds); the first frame
\* of with_instantiate takes its seed without setting the counter, so a frame pushed
\* by Ext::instantiate has a seed greater than or equal to it; the counter goes down by
\* exactly one (wrapping) when a constructor frame returns Err and is left alone when
\* it returns Ok.
C10_SeedsIncreaseInPushOrder ==
    /\ \A i, j \in 1..Len(committed) :
           /\ (committed[i].nested /\ committed[j].nested
                 /\ committed[i].at < committed[j].at)
                  => committed[i].seed < committed[j].seed
           /\ (~committed[i].nested /\ committed[j].nested)
                  => committed[i].seed <= committed[j].seed
    /\ DecrementedOncePerFailure

\* Reached: a constructor committed after a constructor it instantiated, and a
\* constructor frame that failed has brought the counter down.
C10_ParentCommittedAfterChild ==
    /\ \E i, j \in 1..Len(committed) :
           /\ i < j /\ committed[i].nested /\ committed[j].nested
           /\ committed[j].at < committed[i].at
    /\ ConstructorReturned /\ ret.result = "Ok"

\* A nested frame has just been pushed and its executable is about to run.
NestedEntered == ret.kind = "entered" /\ Len(frames) >= 1

\* C11: the nested meter of a frame pushed by call or instantiate is a child of the
\* calling frame's nested meter: its limit is the gas limit that was asked for (all
\* the gas the calling frame has left when none was asked for) and it is taken out of
\* the calling frame's meter; an attempt is refused for gas only when the calling
\* frame has less gas left than was asked for; and no frame's meter holds more gas
\* than its limit, so a frame and the frames below it never use more than the limit
\* nor more than the calling frame had left at the push.
C11_NestedMeterIsChildOfCaller ==
    /\ NestedEntered =>
           LET before == frame(ret.before).nested_meter
               parent == AllFrames[Len(AllFrames) - 1].nested_meter
               child == frame(AllFrames).nested_meter
           IN /\ child.limit = IF ret.gas_limit = 0 THEN before.gas_left
                                ELSE ret.gas_limit
              /\ child.limit <= before.gas_left
              /\ parent.gas_left = before.gas_left - child.limit
    /\ (ret.kind \in {"call", "instantiate"} /\ ret.error = "OutOfGas") =>
           frame(ret.before).nested_meter.gas_left < ret.gas_limit
    /\ \A i \in 1..Len(AllFrames) :
           mode = "running" =>
               AllFrames[i].nested_meter.gas_left <= AllFrames[i].nested_meter.limit

\* A frame that has gas left pushed a frame.
C11_CallerWithGasPushed ==
    NestedEntered /\ frame(ret.before).nested_meter.gas_left > 0

\* C12: what rent_params() returns inside a frame is what the frame was constructed
\* with, whatever the frame and the frames it pushed did since (set_rent_allowance,
\* call, instantiate, transfer, terminate, restore_to, the pop of a nested frame):
\* every frame on the stack holds the rent parameters it was pushed with.
C12_RentParamsSnapshotted ==
    mode = "running" =>
        /\ \A i \in 1..Len(AllFrames) : AllFrames[i].rent_params = hist[i].rent_params
        /\ ret.kind = "rent_params" => ret.rent_params = hist[Len(hist)].rent_params

\* rent_params() is read in a frame that has spent part of the balance it was
\* constructed with.
C12_ReadAfterBalanceChanged ==
    /\ ret.kind = "rent_params"
    /\ mode = "running"
    /\ ret.rent_params.free_balance > free_balance(storage, ret.account)

\* C13: the total_balance and the free_balance of the rent parameters of a frame are
\* the balances of the frame's account after the frame's initial transfer: they
\* include the value the frame was entered with.
C13_RentParamsIncludeValue ==
    ret.kind = "entered" =>
        /\ frame(AllFrames).rent_params.total_balance =
               total_balance(storage, ret.account)
        /\ frame(AllFrames).rent_params.free_balance =
               free_balance(storage, ret.account)

\* A frame was entered with a value from another account.
C13_EnteredWithValue ==
    ret.kind = "entered" /\ ret.value > 0 /\ ret.caller # ret.account

\* The initial transfer of a frame pushed by a contract has just failed: the frame was
\* pushed and popped again before its executable ran.
InitialTransferFailed ==
    ret.kind \in {"call", "instantiate"} /\ ret.pushed /\ ret.outcome = ""

\* A transfer made for a contract has just been attempted: Ext::transfer, or the
\* initial transfer of a frame that a contract pushed.
ContractTransferred == ret.kind = "transfer" \/ NestedEntered \/ InitialTransferFailed

TransferSender == IF ret.kind = "transfer" THEN ret.account ELSE ret.caller
TransferReceiver == IF ret.kind = "transfer" THEN ret.beneficiary ELSE ret.account

\* The transfer would leave its sender with less than the subsistence threshold.
BelowSubsistence ==
    saturating_sub(total_balance(ret.pre, TransferSender), ret.value)
        < subsistence_threshold

TransferRefused(err) ==
    /\ ret.error = err
    /\ ret.kind # "entered"
    /\ storage.balance[TransferSender] = ret.pre.balance[TransferSender]
    /\ storage.balance[TransferReceiver] = ret.pre.balance[TransferReceiver]

\* C14 as stated: every transfer made for a contract that would leave the sender's
\* total balance below the subsistence threshold fails with
\* BelowSubsistenceThreshold and leaves both balances unchanged.
C14_BelowSubsistenceRefused ==
    (ContractTransferred /\ BelowSubsistence) =>
        TransferRefused("BelowSubsistenceThreshold")

\* C14: a transfer of a value other than 0 made for a contract that would leave the
\* sender's total balance below the subsistence threshold fails with
\* BelowSubsistenceThreshold and leaves both balances unchanged; a transfer of 0
\* succeeds and moves nothing, whatever the sender holds.
C14_NonZeroBelowSubsistenceRefused ==
    /\ (ContractTransferred /\ BelowSubsistence /\ ret.value > 0) =>
           TransferRefused("BelowSubsistenceThreshold")
    /\ (ContractTransferred /\ ret.value = 0) =>
           /\ ret.kind = "entered" \/ ret.result = "Ok"
           /\ storage.balance = ret.pre.balance

\* A contract that could have paid the value, but not kept the subsistence threshold,
\* was refused the initial transfer of the frame it pushed.
C14_InitialTransferRefused ==
    /\ InitialTransferFailed
    /\ BelowSubsistence
    /\ ret.value > 0
    /\ free_balance(ret.pre, TransferSender) - ret.value >= ExistentialDeposit
    /\ ret.error = "BelowSubsistenceThreshold"

\* C15: caller() in a frame at depth 1 is the origin and in a frame at depth d > 1
\* the account of the frame at depth d - 1, which is the account whose executable
\* pushed the frame.
C15_CallerIsFrameBelow ==
    (ret.kind = "caller" /\ mode = "running") =>
        /\ ret.depth = 1 => ret.caller = origin
        /\ ret.depth > 1 => ret.caller = AllFrames[ret.depth - 1].account_id
        /\ ret.caller = hist[ret.depth].by

\* caller() was asked for at depth 3, in a frame that the origin did not invoke and
\* the first frame's contract did not push.
C15_CallerAtDepthThree ==
    /\ ret.kind = "caller"
    /\ ret.depth = 3
    /\ ret.caller # origin
    /\ ret.caller # first_frame.account_id

\* A frame whose executable ran has just been popped with persist = true while its
\* record was Cached.
PersistedCached ==
    /\ FrameReturned
    /\ ret.outcome # ""
    /\ is_ok(ret.result)
    /\ IsCached(ret.popped)

\* The frame that has just been popped had a frame of its own account right below.
PoppedOntoSameAccount ==
    ret.depth > 1 /\ AllFrames[ret.depth - 1].account_id = ret.account

\* C16 as stated: right after a frame is popped with persist = true and a Cached
\* record, the stored record of its account is that record.
C16_PersistedRecordStored ==
    PersistedCached => storage.info[ret.account] = ret.popped.contract_info.info

\* C16: right after a frame is popped with persist = true and a Cached record, the
\* stored record of its account is that record, unless the frame right below is a
\* frame of the same account: then the record becomes the Cached record of that
\* frame and the stored record is left as it was.
C16_PersistedRecordStoredOrHandedDown ==
    PersistedCached =>
        IF PoppedOntoSameAccount
        THEN /\ AllFrames[ret.depth - 1].contract_info =
                    Cached(ret.popped.contract_info.info)
             /\ storage.info[ret.account] = ret.at_return.info[ret.account]
        ELSE storage.info[ret.account] = ret.popped.contract_info.info

\* A nested frame was popped with persist = true and a record that differs from the
\* stored one, onto a frame of another account.
C16_NestedRecordWritten ==
    /\ PersistedCached
    /\ ret.depth > 1
    /\ ~PoppedOntoSameAccount
    /\ ret.at_return.info[ret.account] # ret.popped.contract_info.info
    /\ storage.info[ret.account] = ret.popped.contract_info.info

\* restore_to has just succeeded in the top frame.
RestoreSucceeded == ret.kind = "restore_to" /\ ret.result = "Ok"

\* C17: when restore_to has succeeded in a frame and the frame's executable then
\* returns Ok, the pop of the frame does not write the frame's cached record back:
\* after the frame returned there is no alive record for its account.
C17_RestoredContractStaysRemoved ==
    [][(/\ RestoreSucceeded
        /\ ret'.kind \in {"with_call", "with_instantiate", "call", "instantiate"}
        /\ ret'.pushed
        /\ ret'.account = ret.account
        /\ ret'.outcome = "Ok"
        /\ ret'.result = "Ok")
       => ~storage'.info[ret.account].alive]_vars

\* restore_to has succeeded in a frame entered from the origin and has removed the
\* record of the frame's account.
C17_RestoredInFirstFrame ==
    RestoreSucceeded /\ frames = <<>> /\ ~storage.info[ret.account].alive

\* terminate has just succeeded in a Call frame.
TerminateSucceeded ==
    ret.kind = "terminate" /\ ret.result = "Ok" /\ frame(AllFrames).entry_point = "Call"

\* What terminate leaves whoever the beneficiary is: the frame is Terminated, the
\* record is removed and one Terminated event is deposited.
TerminatedAndRemoved ==
    /\ frame(AllFrames).contract_info = Terminated
    /\ ~storage.info[ret.account].alive
    /\ storage.events =
           Append(ret.pre.events,
                  [event |-> "Terminated", a |-> ret.account, b |-> ret.beneficiary])

\* The pop of a Call frame that is Terminated, with persist = true, writes no record
\* for the frame's account.
TerminatedPopWritesNothing ==
    (CallReturned /\ ret.outcome # "" /\ is_ok(ret.result)
                  /\ ret.popped.contract_info = Terminated) =>
        storage.info[ret.account] = ret.at_return.info[ret.account]

\* C18 as stated: after terminate succeeded in a Call frame, the frame is Terminated,
\* the contract's free balance is 0, the beneficiary holds the contract's previous
\* free balance on top of its own, the record is removed, one Terminated event is
\* deposited, and the pop of the frame writes no record.
C18_TerminateDrainsContract ==
    /\ TerminateSucceeded =>
           /\ TerminatedAndRemoved
           /\ free_balance(storage, ret.account) = 0
           /\ free_balance(storage, ret.beneficiary) =
                  free_balance(ret.pre, ret.beneficiary)
                      + free_balance(ret.pre, ret.account)
    /\ TerminatedPopWritesNothing

\* C18: after terminate succeeded in a Call frame, the frame is Terminated, the record
\* is removed and one Terminated event is deposited; when the beneficiary is another
\* account the contract's free balance is 0 and the beneficiary holds the
\* contract's previous free balance on top of its own; when the contract names
\* itself the balance stays where it was; and the pop of the frame with
\* persist = true writes no record for the account.
C18_TerminateDrainsToAnotherAccount ==
    /\ TerminateSucceeded =>
           /\ TerminatedAndRemoved
           /\ ret.beneficiary # ret.account =>
                  /\ free_balance(storage, ret.account) = 0
                  /\ free_balance(storage, ret.beneficiary) =
                         free_balance(ret.pre, ret.beneficiary)
                             + free_balance(ret.pre, ret.account)
           /\ ret.beneficiary = ret.account => storage.balance = ret.pre.balance
    /\ TerminatedPopWritesNothing

\* A Call frame that terminated its contract in favour of another account, which
\* had a balance to hand over, was popped with persist = true and the record is
\* absent.
C18_TerminatedFramePopped ==
    /\ CallReturned
    /\ ret.outcome = "Ok"
    /\ is_ok(ret.result)
    /\ ret.popped.contract_info = Terminated
    /\ ~storage.info[ret.account].alive
    /\ storage.balance[ret.account] = 0
    /\ ret.pre.balance[ret.account] > 0
    /\ \E i \in 1..Len(storage.events) :
           /\ storage.events[i].event = "Terminated"
           /\ storage.events[i].a = ret.account
           /\ storage.events[i].b # ret.account

\* What holds all along the run of a contract that calls itself: the depth stays
\* within MaxDepth, the only call that fails is the one attempted at depth =
\* MaxDepth, with (MaxCallDepthReached, 0), every frame that was pushed returns Ok,
\* and when the entry has returned the stack is unwound and MaxDepth frames were
\* pushed (one entry and MaxDepth - 1 calls, then the one refused call).
RecursionUnwinds ==
    /\ mode \in {"idle", "running", "done"}
    /\ mode = "running" => depth(AllFrames) <= max_depth
    /\ (ret.kind = "call" /\ ~ret.pushed) =>
           /\ ret.error = "MaxCallDepthReached" /\ ret.code_len = 0
           /\ ret.depth = max_depth
           /\ steps = max_depth + 1
    /\ (ret.kind \in {"call", "with_call"} /\ ret.pushed) => ret.result = "Ok"
    /\ mode = "done" =>
           /\ frames = <<>>
           /\ steps = max_depth + 1
           /\ IF max_depth = 0
              THEN ret.error = "MaxCallDepthReached" /\ ~ret.pushed
              ELSE ret.kind = "with_call" /\ ret.result = "Ok"

\* C19: a contract that calls itself unconditionally terminates: with MaxDepth = N
\* exactly N frames are pushed, the call attempted from the N-th frame returns
\* Err(MaxCallDepthReached, 0), every enclosing call returns Ok, and the top-level
\* entry eventually returns with the stack unwound.
C19_SelfCallerTerminates == []RecursionUnwinds /\ <>(mode = "done")

\* The entry of a self-calling contract has returned Ok after the call from the
\* frame at depth MaxDepth = MaxDepthBound was refused.
C19_UnwoundFromMaxDepth ==
    /\ mode = "done"
    /\ max_depth = MaxDepthBound
    /\ ret.kind = "with_call" /\ ret.result = "Ok"
    /\ steps = MaxDepthBound + 1
    /\ frames = <<>>

\* The initial transfer of a frame entered from the origin has just been attempted.
OriginTransferred ==
    \/ ret.kind = "entered" /\ frames = <<>>
    \/ ret.kind \in {"with_call", "with_instantiate"} /\ ret.pushed /\ ret.outcome = ""

Transferred == OriginTransferred \/ ContractTransferred

\* The currency refuses the transfer that has just been attempted.
CurrencyRefuses ==
    ~Currency_transfer(ret.pre, TransferSender, TransferReceiver, ret.value,
                       "KeepAlive").ok

\* C20: a transfer that the currency refuses fails with TransferFailed, whatever the
\* currency's own error was, which never reaches the caller; and a transfer that
\* fails leaves the balances of the sender and of the receiver as they were.
C20_CurrencyErrorIsTransferFailed ==
    /\ (Transferred \/ ret.kind = "terminate") =>
           ret.error \notin {"InsufficientBalance", "KeepAlive", "ExistentialDeposit"}
    /\ (Transferred /\ ret.value > 0 /\ ~(ContractTransferred /\ BelowSubsistence)
                     /\ CurrencyRefuses)
           => TransferRefused("TransferFailed")
    /\ (Transferred /\ ret.error \in {"TransferFailed", "BelowSubsistenceThreshold"})
           => /\ storage.balance[TransferSender] = ret.pre.balance[TransferSender]
              /\ storage.balance[TransferReceiver] = ret.pre.balance[TransferReceiver]

\* An origin that holds less than the value was refused the transfer to the contract
\* it called.
C20_OriginBalanceTooLow ==
    /\ OriginTransferred
    /\ free_balance(ret.pre, ret.caller) < ret.value
    /\ ret.error = "TransferFailed"

\* C21: a transfer of a value v from a plain account that the currency accepts takes
\* exactly v from the sender and gives exactly v to the receiver, and no other
\* balance changes; the currency accepts every v that leaves the sender the
\* existential deposit; a transfer of 0 succeeds and changes no balance.
C21_PlainTransferMovesValue ==
    /\ (ret.kind = "entered" /\ frames = <<>>) =>
           storage.balance =
               [a \in Accounts |->
                   ret.pre.balance[a]
                       + (IF a = ret.account THEN ret.value ELSE 0)
                       - (IF a = ret.caller THEN ret.value ELSE 0)]
    /\ (OriginTransferred
           /\ (ret.value = 0
                  \/ free_balance(ret.pre, ret.caller) - ret.value >= ExistentialDeposit))
           => ret.kind = "entered"

\* An origin paid a value to the contract it entered.
C21_OriginPaidValue ==
    /\ ret.kind = "entered" /\ frames = <<>>
    /\ ret.value > 0
    /\ storage.balance[ret.caller] = ret.pre.balance[ret.caller] - ret.value
    /\ storage.balance[ret.account] = ret.pre.balance[ret.account] + ret.value

\* The executable of the frame that has just returned produced a return value.
ExecutableReturnedValue == FrameReturned /\ ret.outcome \in {"Ok", "Revert"}

\* C22: the flags and the data that a frame's executable returned are what the
\* invoker of the frame gets: a return with REVERT set is delivered as Ok with
\* REVERT and the data, for a Call frame and for a Constructor frame alike; a return
\* with empty flags is delivered as it is unless the checks that follow a
\* successful constructor fail.
C22_ReturnValueUnchanged ==
    ExecutableReturnedValue =>
        \/ ret.result = ret.outcome /\ ret.data = ret.executed
        \/ /\ ret.entry_point = "Constructor" /\ ret.outcome = "Ok"
           /\ ret.result = "Err"
           /\ ret.error \in {"NotCallable", "NewContractNotFunded"}

\* The executable of a Call frame returned data with REVERT set and the invoker got
\* them.
C22_RevertDelivered ==
    /\ CallReturned
    /\ ret.outcome = "Revert" /\ ret.result = "Revert"
    /\ ret.executed = Max(Outputs) /\ ret.data = Max(Outputs)

\* A constructor succeeded and the charge of its first rent evicted the new contract.
EvictedAfterConstructor ==
    ConstructorReturned /\ ret.outcome = "Ok" /\ ret.error = "NewContractNotFunded"

\* C23: when the charge of the first rent after a successful constructor evicts the
\* new contract, instantiate returns Err(NewContractNotFunded), no Instantiated event
\* was deposited for the frame, and afterwards there is no contract record under the
\* derived address.
C23_EvictedContractLeavesNoRecord ==
    EvictedAfterConstructor =>
        /\ ret.result = "Err"
        /\ storage.events = ret.at_return.events
        /\ ~storage.info[ret.account].alive

\* The two parts of the statement that do not depend on what the frame leaves behind.
C23_EvictedContractNotAnnounced ==
    EvictedAfterConstructor =>
        /\ ret.result = "Err"
        /\ storage.events = ret.at_return.events

\* A constructor entered with no endowment succeeded and was refused for lack of funds.
C23_UnfundedConstructorRefused ==
    /\ EvictedAfterConstructor
    /\ ret.value = 0 /\ ret.result = "Err"
    /\ storage.balance[ret.account] < subsistence_threshold + RentPerBlock

\* The rent that was due from the callee when the frame that has returned was entered.
RentChargedOnEntry ==
    RentPerBlock * saturating_sub(BlockNumber, ret.pre.info[ret.account].deduct_block)

\* A top-level call returned without success: with an error or with REVERT set.
TopLevelCallFailed ==
    CallReturned /\ ret.kind = "with_call" /\ ret.result \in {"Revert", "Err"}

\* C24: the rent charged when a Call frame is entered stays charged when the frame
\* fails or reverts: after a top-level call that returned an error or REVERT the
\* callee holds what it held before the call less the rent, and the caller holds what
\* it held before the call.
C24_RentStaysAfterRevert ==
    TopLevelCallFailed =>
        /\ storage.balance[ret.account] =
               ret.entry_balance[ret.account] - RentChargedOnEntry
        /\ storage.balance[ret.caller] = ret.entry_balance[ret.caller]

\* A top-level call with a value reverted and the callee had paid rent on entry.
C24_RevertedAfterRentCharged ==
    /\ TopLevelCallFailed
    /\ ret.result = "Revert" /\ ret.value > 0
    /\ RentChargedOnEntry > 0
    /\ ret.pre.balance[ret.account] = ret.entry_balance[ret.account] - RentChargedOnEntry

\* The step refuses a call with NotCallable: nothing is pushed and nothing changes.
RefusedNotCallable ==
    /\ ret'.result = "Err" /\ ret'.error = "NotCallable" /\ ret'.code_len = 0
    /\ ~ret'.pushed
    /\ storage' = storage /\ first_frame' = first_frame /\ frames' = frames

\* C25: with_call and Ext::call to an account without an alive contract record fail
\* with NotCallable and code_len 0 (the call depth permitting): no frame is pushed, no
\* value is transferred and the storage does not change.
C25_CallToNoContractRefused ==
    [][\A to \in Accounts, value \in Values :
           /\ (with_call(ALICE, to, value) /\ ~storage.info[to].alive /\ max_depth > 0)
                  => RefusedNotCallable
           /\ (call(0, to, value) /\ ~storage.info[to].alive
                  /\ depth(AllFrames) < max_depth)
                  => RefusedNotCallable]_vars

\* A contract called an account that has no record and the call was refused.
C25_NestedCallRefused ==
    /\ ret.kind = "call" /\ ~ret.pushed
    /\ ret.result = "Err" /\ ret.error = "NotCallable" /\ ret.code_len = 0
    /\ mode = "running" /\ depth(AllFrames) < max_depth

\* with_call, with_instantiate, Ext::call or Ext::instantiate has returned an error.
FrameErrorReturned ==
    /\ ret.kind \in {"with_call", "with_instantiate", "call", "instantiate"}
    /\ ret.result = "Err"

\* The error that has been returned is the one the frame's executable returned.
ErrorOfExecutable == FrameErrorReturned /\ ret.pushed /\ ret.outcome = "Err"

\* C26: every error that with_call, with_instantiate, Ext::call or Ext::instantiate
\* returns has an origin: Callee when it is the error that the frame's executable
\* returned, whatever that error is, and Caller when the executive raised it (no
\* frame could be made, the initial transfer failed, or a check after the
\* constructor failed).
C26_ErrorOriginSet ==
    FrameErrorReturned =>
        ret.origin = (IF ErrorOfExecutable THEN "Callee" ELSE "Caller")

\* The constructor of a nested instantiation returned an error that carries the name
\* of an error of the executive, and the instantiating contract got it with origin
\* Callee.
C26_ConstructorErrorFromCallee ==
    /\ ErrorOfExecutable
    /\ ret.kind = "instantiate"
    /\ ret.error = "MaxCallDepthReached"
    /\ ret.origin = "Callee"

\* A frame pushed by a contract returned with the error of its executable.
NestedFrameFailed ==
    /\ FrameReturned /\ ret.kind \in {"call", "instantiate"}
    /\ ret.outcome = "Err" /\ ret.result = "Err"

\* C27: no update of the cached contract info is lost: when a frame that a contract
\* pushed has failed, whatever happened inside it (frames of the contract's own
\* account that committed there included), rent_allowance() returns in the contract's
\* frame what it returned when the failed frame was pushed: what the contract has
\* written last.
C27_AllowanceSurvivesFailedCall ==
    NestedFrameFailed => allowance_read(AllFrames, storage) = ret.allowance

\* A contract set its allowance and called another contract, which failed before it
\* had called anything.
C27_CalleeFailedAfterAllowanceSet ==
    /\ NestedFrameFailed
    /\ ret.kind = "call" /\ ret.account # ret.caller
    /\ ret.allowance \in Allowances
    /\ storage.info[ret.caller].rent_allowance # ret.allowance
    /\ allowance_read(AllFrames, storage) = ret.allowance

\* The stack from which the frame that has just returned was popped, without that
\* frame.
RemainingBefore == SubSeq(ret.before, 1, ret.depth - 1)

\* A frame pushed by a contract has just been popped with persist = true and a Cached
\* record onto a frame of another account.
PersistedOntoOther == PersistedCached /\ ret.depth > 1 /\ ~PoppedOntoSameAccount

\* The frames of the popped frame's account that were below it.
DuplicatesBelow == {i \in 1..(ret.depth - 1) : ret.before[i].account_id = ret.account}

\* C28: when a frame that is not the first is popped with persist = true and a Cached
\* record onto a frame of another account, the topmost remaining frame of the popped
\* frame's account, if there is one, becomes Invalidated, every other frame is left
\* as it was, and the record is written to storage under the account, where no other
\* account's record changes.
C28_NearestDuplicateInvalidated ==
    PersistedOntoOther =>
        /\ AllFrames =
               [i \in 1..(ret.depth - 1) |->
                   IF DuplicatesBelow # {} /\ i = Max(DuplicatesBelow)
                   THEN [RemainingBefore[i] EXCEPT !.contract_info = Invalidated]
                   ELSE RemainingBefore[i]]
        /\ storage.info =
               [ret.at_return.info EXCEPT
                   ![ret.account] = ret.popped.contract_info.info]

\* A frame was popped onto another account above two frames of its own account that
\* were both Cached: the upper one is Invalidated now, the lower one still Cached.
C28_PoppedAboveTwoDuplicates ==
    /\ PersistedOntoOther
    /\ Cardinality(DuplicatesBelow) = 2
    /\ \A i \in DuplicatesBelow : IsCached(ret.before[i])
    /\ AllFrames[Max(DuplicatesBelow)].contract_info = Invalidated
    /\ \E i \in DuplicatesBelow : IsCached(AllFrames[i])

\* C29: when a frame is popped with persist = true and a Cached record onto a frame
\* of its own account, that frame's cache becomes the popped record, every other
\* frame is left as it was and the pop leaves the storage as it was.
C29_SelfCallHandsRecordDown ==
    (PersistedCached /\ PoppedOntoSameAccount) =>
        /\ AllFrames =
               [RemainingBefore EXCEPT
                   ![ret.depth - 1].contract_info = Cached(ret.popped.contract_info.info)]
        /\ storage.info = ret.at_return.info

\* A contract that had changed its allowance in a call to itself returned from that
\* call: the frame below has the new allowance and the stored record the old one.
C29_SelfCallReturnedChanged ==
    /\ PersistedCached /\ PoppedOntoSameAccount
    /\ ret.before[ret.depth - 1].contract_info # ret.popped.contract_info
    /\ ret.popped.contract_info.info # storage.info[ret.account]
    /\ frame(AllFrames).contract_info = ret.popped.contract_info

\* The frames of the stack whose cache is Invalidated.
InvalidatedFrames ==
    {i \in 1..Len(AllFrames) : AllFrames[i].contract_info.state = "Invalidated"}

\* C30: while executables run, every frame on the stack whose cache is Invalidated
\* has an alive record in storage under its account, so that CachedContract::load
\* makes it Cached again.
C30_InvalidatedFrameHasRecord ==
    mode \in {"running", "panic"} =>
        \A i \in InvalidatedFrames : storage.info[AllFrames[i].account_id].alive

\* The calls made by a contract have returned and left its frame Invalidated, with
\* the record of its account alive in storage.
C30_InvalidatedTopFrameHasRecord ==
    /\ mode = "running"
    /\ ret.kind = "call" /\ ret.pushed
    /\ frame(AllFrames).contract_info.state = "Invalidated"
    /\ storage.info[frame(AllFrames).account_id].alive

\* terminate has just returned an error other than ReentranceDenied.
TerminateFailed ==
    ret.kind = "terminate" /\ ret.result = "Err" /\ ret.error # "ReentranceDenied"

\* C31: a terminate that returns an error other than ReentranceDenied does not leave
\* the frame Terminated: the record of the contract still exists, and the frame can
\* still reach it.
C31_FailedTerminateKeepsFrame ==
    TerminateFailed => frame(AllFrames).contract_info.state # "Terminated"

\* terminate failed because the deletion queue was full, and the record of the
\* contract is still in storage.
C31_TerminateFailedQueueFull ==
    /\ TerminateFailed
    /\ ret.error = "DeletionQueueFull"
    /\ storage.info[ret.account].alive
    /\ storage = ret.pre

\* The constructor frames that are on the stack while executables run.
LiveConstructors ==
    {i \in 1..Len(hist) : mode = "running" /\ AllFrames[i].entry_point = "Constructor"}

\* C32: within one entry no two constructor frames that are on the stack have the
\* same seed; in particular the seed of the first frame of with_instantiate differs
\* from every seed that next_account_seed hands to a nested instantiation.
C32_LiveConstructorSeedsDiffer ==
    \A i, j \in LiveConstructors : i < j => hist[i].seed # hist[j].seed

\* The part that holds: the frames pushed by Ext::instantiate have different seeds.
C32_NestedSeedsDiffer ==
    \A i, j \in LiveConstructors : (1 < i /\ i < j) => hist[i].seed # hist[j].seed

\* The constructor entered by with_instantiate has instantiated a contract, whose
\* constructor runs with the first seed that next_account_seed handed out.
C32_FirstNestedInstantiation ==
    /\ LiveConstructors = {1, 2}
    /\ hist[1].counter_before = None
    /\ hist[2].counter_before = None
    /\ hist[2].seed = account_counter

\* Ext::call or Ext::instantiate has just returned to the contract that called it.
NestedReturned == ret.kind \in {"call", "instantiate"}

\* C33: when Ext::call or Ext::instantiate returns, with Ok or with an error, raised
\* before or after a frame was pushed, the stack is as deep as it was before the call
\* and its top frame is the calling frame, with the account id and the entry point it
\* had before the call.
C33_PushAndPopBalanced ==
    NestedReturned =>
        /\ depth(AllFrames) = ret.from.depth
        /\ frame(AllFrames).account_id = ret.from.account_id
        /\ frame(AllFrames).entry_point = ret.from.entry_point

\* A frame pushed at depth 2 for another account has returned after its executable
\* had run, and the stack is two frames deep again.
C33_ReturnedToDepthTwo ==
    /\ NestedReturned /\ ret.pushed /\ ret.outcome # ""
    /\ ret.from.depth = 2 /\ depth(AllFrames) = 2
    /\ ret.from.account_id # ret.account

\* The initial transfer of the frame that has just been pushed failed, in a frame
\* entered from the origin or pushed by a contract.
FrameTransferFailed ==
    /\ ret.kind \in {"with_call", "with_instantiate", "call", "instantiate"}
    /\ ret.pushed /\ ret.outcome = ""

\* What Stack::transfer returns for the initial transfer of the frame that ret is
\* about, on the storage the frame's transaction started from.
InitialTransferOf(sender_is_contract) ==
    transfer(ret.pre, sender_is_contract, FALSE, ret.caller, ret.account, ret.value)

\* C34: the executable of a frame is only called when the frame's initial transfer
\* has succeeded; when the transfer fails the frame returns the error of the transfer
\* with code_len 0, the storage is what it was when the frame's transaction began,
\* the frame is off the stack and the frames below are as they were.
C34_FailedTransferSkipsExecutable ==
    /\ ret.kind = "entered" => InitialTransferOf(frames # <<>>).ok
    /\ FrameTransferFailed =>
           /\ ret.result = "Err" /\ ret.code_len = 0
           /\ ret.error = InitialTransferOf(ret.kind \in {"call", "instantiate"}).err
           /\ ret.error \in {"TransferFailed", "BelowSubsistenceThreshold"}
           /\ storage = ret.pre
           /\ ret.kind \in {"call", "instantiate"} =>
                  mode = "running" /\ AllFrames = ret.before
           /\ ret.kind \in {"with_call", "with_instantiate"} => mode = "done"

\* A contract instantiated a contract with an endowment it could not pay: the
\* constructor did not run and the new account holds nothing.
C34_EndowmentNotPaid ==
    /\ FrameTransferFailed
    /\ ret.kind = "instantiate"
    /\ ret.value > 0
    /\ storage.balance[ret.account] = 0
    /\ storage.balance[ret.caller] = ret.pre.balance[ret.caller]

\* The first frame has just been popped with persist = true after its executable ran.
FirstFramePersisted ==
    /\ FrameReturned /\ ret.kind \in {"with_call", "with_instantiate"}
    /\ ret.outcome # "" /\ is_ok(ret.result)

\* C35: when the first frame is popped with persist = true and its cache is Cached,
\* the cached record is written to ContractInfoOf under the frame's account and no
\* other record changes; when its cache is Terminated or Invalidated the pop writes
\* nothing: the storage is what it was when the executable returned.
C35_FirstFrameWrittenIfCached ==
    FirstFramePersisted =>
        IF IsCached(ret.popped)
        THEN storage.info =
                 [ret.at_return.info EXCEPT
                     ![ret.account] = ret.popped.contract_info.info]
        ELSE storage = ret.at_return

\* The first frame changed its allowance and returned: the stored record has the new
\* allowance, which it had not when the executable returned.
C35_FirstFrameRecordWritten ==
    /\ FirstFramePersisted
    /\ IsCached(ret.popped)
    /\ ret.at_return.info[ret.account].rent_allowance
           # ret.popped.contract_info.info.rent_allowance
    /\ storage.info[ret.account] = ret.popped.contract_info.info

\* A frame has just been popped with persist = false: it returned an error.
PoppedWithoutPersist == FrameReturned /\ ret.result = "Err"

\* The storage that the pop of the frame that has just returned found: that of the
\* beginning of the frame's transaction when the transaction was rolled back, that of
\* the return of the executable when a check after the constructor failed.
StorageAtPop == IF ret.outcome \in {"Ok", "Revert"} THEN ret.at_return ELSE ret.pre

\* The frames that were below the frame that has just returned, as they were before
\* the pop.
BelowAtPop == IF ret.outcome = "" THEN ret.before ELSE RemainingBefore

\* C36: the pop of a frame with persist = false only removes the frame: it writes
\* nothing to storage, and every frame that remains has the cache state and the
\* cached record it had before the pop.
C36_FailedFrameOnlyRemoved ==
    PoppedWithoutPersist =>
        /\ storage = StorageAtPop
        /\ ret.kind \in {"call", "instantiate"} => AllFrames = BelowAtPop

\* A Call frame whose cached record differs from the stored one failed above a frame
\* of the same account that is Cached, and that frame still is.
C36_FailedAboveCachedDuplicate ==
    /\ PoppedWithoutPersist
    /\ ret.kind = "call" /\ ret.outcome = "Err"
    /\ IsCached(ret.popped)
    /\ ret.popped.contract_info.info # storage.info[ret.account]
    /\ \E i \in 1..Len(AllFrames) :
           /\ AllFrames[i].account_id = ret.account
           /\ IsCached(AllFrames[i])
           /\ AllFrames[i].contract_info # ret.popped.contract_info

\* The sender of the initial transfer that has just been attempted is held to the
\* subsistence threshold: the frame was pushed by a contract.
SenderIsContract ==
    \/ NestedEntered
    \/ ret.kind \in {"call", "instantiate"}

\* The currency cannot take the value from the sender and leave it the existential
\* deposit.
DeathOfSender ==
    free_balance(ret.pre, ret.caller) - ret.value < ExistentialDeposit

\* C37: the initial transfer of a frame moves value_transferred from the caller to
\* the frame's account and never leaves the caller less than the existential deposit;
\* the origin of a first frame is refused only a value that would leave it less than
\* the existential deposit, and is never held to the subsistence threshold; a
\* contract that pushes a frame is refused every value that would leave it less than
\* the subsistence threshold.
C37_InitialTransferByDepth ==
    /\ ret.kind = "entered" =>
           /\ storage.balance =
                  [a \in Accounts |->
                      ret.pre.balance[a]
                          + (IF a = ret.account THEN ret.value ELSE 0)
                          - (IF a = ret.caller THEN ret.value ELSE 0)]
           /\ (ret.value > 0 /\ ret.caller # ret.account) =>
                  /\ free_balance(storage, ret.caller) >= ExistentialDeposit
                  /\ SenderIsContract =>
                         total_balance(storage, ret.caller) >= subsistence_threshold
    /\ FrameTransferFailed =>
           /\ ret.value > 0
           /\ IF SenderIsContract /\ BelowSubsistence
              THEN ret.error = "BelowSubsistenceThreshold"
              ELSE ret.error = "TransferFailed" /\ DeathOfSender
           /\ storage.balance = ret.pre.balance

\* An origin paid the contract it called a value that left it the existential
\* deposit, which is less than the subsistence threshold.
C37_OriginLeftBelowSubsistence ==
    /\ ret.kind = "entered" /\ frames = <<>>
    /\ ret.value > 0
    /\ total_balance(storage, ret.caller) < subsistence_threshold
    /\ total_balance(storage, ret.caller) >= ExistentialDeposit

====
